---- MODULE Spec2Model ----
(***************************************************************************)
(* TinyGeo::Vector<T, N> (include/TinyGeo/Vector.h) as a state machine.     *)
(*                                                                         *)
(* Two element types are modelled:                                         *)
(*   "int"   - a signed integral T.  Values are integers; signed overflow  *)
(*             is excluded by the guards AddSafe, ScaleSafe and ProdSafe.  *)
(*   "float" - a binary floating-point T in miniature: Prec significand    *)
(*             bits, exponents 0..EMax, round-to-nearest-even, overflow to *)
(*             infinity, NaN.  A finite value is held as its integer       *)
(*             multiple of the smallest positive value (the quantum);      *)
(*             1.0 is Q quanta.  Signed zeros are not distinguished.       *)
(* The build is either a checked build (assert active) or an NDEBUG build  *)
(* (assert compiled out); the latter's undefined behaviour is a            *)
(* nondeterministic choice of outcomes.                                    *)
(***************************************************************************)
EXTENDS Integers, Sequences, FiniteSets, TLC

\* ------------------------------------------------------------------ bounds
\* fractional bits of the miniature float at its lowest exponent
FracBits == 2
\* significand bits of the miniature float
Prec == 4
\* largest exponent of the miniature float
EMax == 4
\* largest magnitude an "int" component may take (stands for INT_MAX)
IntMax == 100
\* number of mutating operations applied to v in one run
MaxSteps == 1

\* ------------------------------------------------------- element type: T
Types == {"int", "float"}

Q == 2^FracBits
FMax == (2^Prec - 1) * 2^EMax
PInf == FMax + 1
NInf == 0 - (FMax + 1)
NaN == FMax + 2

Abs(x) == IF x < 0 THEN 0 - x ELSE x
Sign(x) == IF x < 0 THEN 0 - 1 ELSE IF x > 0 THEN 1 ELSE 0
IsFinite(x) == x >= 0 - FMax /\ x <= FMax

\* the non-negative finite values of the miniature float, in quanta
FloatMags == {m * 2^e : m \in 0..(2^Prec - 1), e \in 0..EMax}

\* exponent at which a magnitude a/d (in quanta) is rounded
ExpOf(a, d) ==
    IF \E e \in 0..EMax : a < 2^(Prec + e) * d
    THEN CHOOSE e \in 0..EMax :
            /\ a < 2^(Prec + e) * d
            /\ \A f \in 0..EMax : a < 2^(Prec + f) * d => e <= f
    ELSE EMax

\* the rational n/d (d > 0, in quanta) rounded to the nearest value of the
\* float format, ties to the even significand, overflow to infinity
RoundF(n, d) ==
    LET a == Abs(n)
        e == ExpOf(a, d)
        D == d * 2^e
        q == a \div D
        rem == a % D
        m == IF 2 * rem < D THEN q
             ELSE IF 2 * rem > D THEN q + 1
             ELSE IF q % 2 = 0 THEN q ELSE q + 1
        mag == m * 2^e
    IN IF mag > FMax THEN (IF n < 0 THEN NInf ELSE PInf)
       ELSE IF n < 0 THEN 0 - mag ELSE mag

FAdd(a, b) ==
    IF a = NaN \/ b = NaN THEN NaN
    ELSE IF a = PInf THEN (IF b = NInf THEN NaN ELSE PInf)
    ELSE IF a = NInf THEN (IF b = PInf THEN NaN ELSE NInf)
    ELSE IF b = PInf \/ b = NInf THEN b
    ELSE RoundF(a + b, 1)

FNeg(a) == IF a = NaN THEN NaN ELSE 0 - a

FMul(a, b) ==
    IF a = NaN \/ b = NaN THEN NaN
    ELSE IF ~IsFinite(a) \/ ~IsFinite(b)
         THEN (IF a = 0 \/ b = 0 THEN NaN
               ELSE IF Sign(a) * Sign(b) > 0 THEN PInf ELSE NInf)
    ELSE RoundF(a * b, Q)

FDiv(a, b) ==
    IF a = NaN \/ b = NaN THEN NaN
    ELSE IF ~IsFinite(a)
         THEN (IF ~IsFinite(b) THEN NaN
               ELSE IF Sign(a) * (IF b < 0 THEN 0 - 1 ELSE 1) > 0 THEN PInf ELSE NInf)
    ELSE IF ~IsFinite(b) THEN 0
    ELSE IF b = 0 THEN (IF a = 0 THEN NaN ELSE IF a > 0 THEN PInf ELSE NInf)
    ELSE IF b < 0 THEN RoundF(0 - (a * Q), 0 - b)
    ELSE RoundF(a * Q, b)

\* correctly rounded square root: sqrt(a/Q) in quanta is sqrt(a*Q)
FSqrt(a) ==
    IF a = NaN \/ a < 0 THEN NaN
    ELSE IF a = PInf THEN PInf
    ELSE LET lo == CHOOSE y \in FloatMags :
                     /\ y * y <= a * Q
                     /\ \A z \in FloatMags : z * z <= a * Q => z <= y
             above == {y \in FloatMags : y > lo}
         IN IF above = {} THEN lo
            ELSE LET hi == CHOOSE y \in above : \A z \in above : y <= z
                 IN IF 4 * a * Q < (lo + hi) * (lo + hi) THEN lo ELSE hi

FLess(a, b) == a # NaN /\ b # NaN /\ a < b

\* C++ integer division truncates toward zero
TruncDiv(a, b) == Sign(a) * Sign(b) * (Abs(a) \div Abs(b))

\* largest k with k*k <= n: T len = std::sqrt(int) converted back to int
ISqrt(n) == CHOOSE k \in 0..n : k * k <= n /\ (k + 1) * (k + 1) > n

\* the arithmetic of T
Add(T, a, b) == IF T = "int" THEN a + b ELSE FAdd(a, b)
Sub(T, a, b) == IF T = "int" THEN a - b ELSE FAdd(a, FNeg(b))
Mul(T, a, b) == IF T = "int" THEN a * b ELSE FMul(a, b)
Div(T, a, b) == IF T = "int" THEN TruncDiv(a, b) ELSE FDiv(a, b)
Neg(T, a) == IF T = "int" THEN 0 - a ELSE FNeg(a)
Sqrt(T, a) == IF T = "int" THEN ISqrt(a) ELSE FSqrt(a)
Less(T, a, b) == IF T = "int" THEN a < b ELSE FLess(a, b)

\* the literal n (an integer) converted to T: T(n)
Lit(T, n) == IF T = "int" THEN n ELSE n * Q

\* T(1e-8) in the "float" miniature: 1e-8f is a positive value far below 1.0;
\* the smallest positive value of the miniature format stands for it
FloatEps == 1

\* T(1e-8): an integral T truncates the literal toward zero
Eps(T) == IF T = "int" THEN TruncDiv(1, 10^8) ELSE FloatEps

\* values an uninitialized component may be found to hold
Garbage(T) == {Lit(T, 0), Lit(T, 1)}

\* --------------------------------------------------- Vector<T, N> methods
\* a Vector is its std::array<T, N> data: a sequence of N values of T

\* Vector() : data{} {}
Zero(T, N) == [i \in 1..N |-> Lit(T, 0)]

\* Vector(std::initializer_list<T> list): the set of outcomes of the call.
\* With the assert compiled out a short list leaves the tail of data
\* uninitialized and a long list writes past the end of data.
CtorList(nd, T, N, list) ==
    IF Len(list) = N THEN {[st |-> "ok", obj |-> list]}
    ELSE IF ~nd THEN {[st |-> "aborted", obj |-> <<>>]}
    ELSE IF Len(list) < N
         THEN {[st |-> "ok", obj |-> list \o fill] :
                  fill \in [1..(N - Len(list)) -> Garbage(T)]}
    ELSE {[st |-> "ok", obj |-> SubSeq(list, 1, N)],
          [st |-> "crashed", obj |-> <<>>]}

\* operator+= with its loop stopping one component short (i < N - 1)
OpPlusAssignShort(T, self, other) ==
    [i \in 1..Len(self) |-> IF i = Len(self) THEN self[i] ELSE Add(T, self[i], other[i])]

\* Vector& operator+=(const Vector& other)
OpPlusAssign(T, self, other) ==
    [i \in 1..Len(self) |-> Add(T, self[i], other[i])]

\* operator-= with the += of the line above it left in
OpMinusAssignAdds(T, self, other) ==
    [i \in 1..Len(self) |-> Add(T, self[i], other[i])]

\* Vector& operator-=(const Vector& other)
OpMinusAssign(T, self, other) ==
    [i \in 1..Len(self) |-> Sub(T, self[i], other[i])]

\* Vector& operator*=(T scalar)
OpMulAssign(T, self, scalar) ==
    [i \in 1..Len(self) |-> Mul(T, self[i], scalar)]

\* operator/= without its assert
OpDivAssignUnchecked(nd, T, self, scalar) ==
    IF scalar = Lit(T, 0) /\ T = "int"
    THEN {[st |-> "crashed", self |-> self]}
         \cup {[st |-> "ok", self |-> OpMulAssign(T, self, g)] : g \in Garbage(T)}
    ELSE {[st |-> "ok", self |-> OpMulAssign(T, self, Div(T, Lit(T, 1), scalar))]}

\* Vector& operator/=(T scalar): the set of outcomes [st, self].
\* assert(scalar != 0); inv_scalar = T(1) / scalar; data[i] *= inv_scalar.
\* With the assert compiled out an integral 1/0 is undefined (a trap, or any
\* quotient); a floating 1/0 is infinity.
OpDivAssign(nd, T, self, scalar) ==
    IF scalar = Lit(T, 0) /\ ~nd THEN {[st |-> "aborted", self |-> self]}
    ELSE IF scalar = Lit(T, 0) /\ T = "int"
         THEN {[st |-> "crashed", self |-> self]}
              \cup {[st |-> "ok", self |-> OpMulAssign(T, self, g)] : g \in Garbage(T)}
    ELSE LET inv_scalar == Div(T, Lit(T, 1), scalar)
         IN {[st |-> "ok", self |-> OpMulAssign(T, self, inv_scalar)]}

\* T& operator[](size_t index): the set of outcomes [st, slot]; slot is the
\* position in data the returned reference names, 0 for a reference outside
\* the object (index >= N with the assert compiled out)
OpIndex(nd, N, index) ==
    IF index < N THEN {[st |-> "ok", slot |-> index + 1]}
    ELSE IF ~nd THEN {[st |-> "aborted", slot |-> 0]}
    ELSE {[st |-> "ok", slot |-> 0], [st |-> "crashed", slot |-> 0]}

\* T& x() / y() / z() / w(): data[k - 1], for k = 1..4 (static_assert(N >= k))
Accessor(k) == k

\* reading through a reference: a reference outside the object reads anything
ReadRef(T, self, slot) == IF slot = 0 THEN Garbage(T) ELSE {self[slot]}

\* writing through a reference: a reference outside the object leaves data alone
WriteRef(self, slot, val) ==
    IF slot = 0 THEN self ELSE [self EXCEPT ![slot] = val]

\* the loop of dot: sum += data[i] * other[i] for i = 0..N-1
RECURSIVE DotLoop(_, _, _, _, _)
DotLoop(T, self, other, i, sum) ==
    IF i > Len(self) THEN sum
    ELSE DotLoop(T, self, other, i + 1, Add(T, sum, Mul(T, self[i], other[i])))

\* dot with its loop starting at i = 1
DotSkipFirst(T, self, other) == DotLoop(T, self, other, 2, Lit(T, 0))

\* T dot(const Vector& other) const
Dot(T, self, other) == DotLoop(T, self, other, 1, Lit(T, 0))

\* cross with the operands of its second component exchanged (left-handed y)
CrossLeftHanded(T, self, other) ==
    << Sub(T, Mul(T, self[2], other[3]), Mul(T, self[3], other[2])),
       Sub(T, Mul(T, self[1], other[3]), Mul(T, self[3], other[1])),
       Sub(T, Mul(T, self[1], other[2]), Mul(T, self[2], other[1])) >>

\* cross with a + for the - of its third component
CrossSignSlip(T, self, other) ==
    << Sub(T, Mul(T, self[2], other[3]), Mul(T, self[3], other[2])),
       Sub(T, Mul(T, self[3], other[1]), Mul(T, self[1], other[3])),
       Add(T, Mul(T, self[1], other[2]), Mul(T, self[2], other[1])) >>

\* Vector cross(const Vector& other) const   (static_assert(N == 3))
Cross(T, self, other) ==
    << Sub(T, Mul(T, self[2], other[3]), Mul(T, self[3], other[2])),
       Sub(T, Mul(T, self[3], other[1]), Mul(T, self[1], other[3])),
       Sub(T, Mul(T, self[1], other[2]), Mul(T, self[2], other[1])) >>

\* T normSq() const
NormSq(T, self) == Dot(T, self, self)

\* T norm() const
Norm(T, self) == Sqrt(T, NormSq(T, self))

\* operator+ taking lhs by reference: the caller's object is the sum too
OperatorPlusByRef(T, lhs, rhs) ==
    [arg |-> OpPlusAssign(T, lhs, rhs), ret |-> OpPlusAssign(T, lhs, rhs)]

\* Vector operator+(Vector lhs, const Vector& rhs): lhs is a copy, so the
\* caller's object (arg) is as before; ret is the returned vector
OperatorPlus(T, lhs, rhs) == [arg |-> lhs, ret |-> OpPlusAssign(T, lhs, rhs)]

\* Vector operator-(Vector lhs, const Vector& rhs)
OperatorMinus(T, lhs, rhs) == [arg |-> lhs, ret |-> OpMinusAssign(T, lhs, rhs)]

\* Vector operator*(Vector lhs, T scalar)
OperatorMulRight(T, lhs, scalar) == [arg |-> lhs, ret |-> OpMulAssign(T, lhs, scalar)]

\* scalar * vector returning its copy unscaled
OperatorMulLeftNoScale(T, scalar, rhs) == [arg |-> rhs, ret |-> rhs]

\* Vector operator*(T scalar, Vector rhs)
OperatorMulLeft(T, scalar, rhs) == [arg |-> rhs, ret |-> OpMulAssign(T, rhs, scalar)]

\* Vector operator/(Vector lhs, T scalar): the set of outcomes [st, arg, ret]
OperatorDiv(nd, T, lhs, scalar) ==
    {[st |-> o.st, arg |-> lhs, ret |-> o.self] : o \in OpDivAssign(nd, T, lhs, scalar)}

\* Vector normalized() const: the set of outcomes [st, arg, ret]
Normalized(nd, T, self) ==
    LET len == Norm(T, self)
    IN IF Less(T, len, Eps(T))
       THEN {[st |-> "ok", arg |-> self, ret |-> Zero(T, Len(self))]}
       ELSE {[st |-> o.st, arg |-> self, ret |-> o.ret] : o \in OperatorDiv(nd, T, self, len)}

\* void normalize(): *this = normalized(); the set of outcomes [st, self]
Normalize(nd, T, self) ==
    {[st |-> o.st, self |-> IF o.st = "ok" THEN o.ret ELSE self] :
        o \in Normalized(nd, T, self)}

\* T dot(const Vector& a, const Vector& b)
DotFree(T, a, b) == Dot(T, a, b)

\* Vector cross(const Vector& a, const Vector& b)
CrossFree(T, a, b) == Cross(T, a, b)

\* ------------------------------------------------------------ the program
VARIABLES
    T,        \* the element type the template is instantiated with
    N,        \* the dimension the template is instantiated with
    ndebug,   \* TRUE when the build defines NDEBUG (assert compiled out)
    v,        \* a Vector object: the receiver / left operand of every call
    w,        \* a second Vector object: the other / right operand
    r,        \* the Vector the last call returned (<<>>: none)
    sc,       \* the scalar the last call returned
    status,   \* "ok", "aborted" (an assert fired) or "crashed" (a trap)
    call,     \* the last call: its name and its scalar, index and list arguments
    steps     \* number of mutating calls made on v

vars == <<T, N, ndebug, v, w, r, sc, status, call, steps>>

Dims == {2, 3}

Idle == [op |-> "idle", s |-> 0, idx |-> 0, list |-> <<>>]

\* the vectors the callers build: components -1, 0, 1, the vectors of the
\* tests, and for the floating type a vector of the smallest positive value
InputsV(t, n) ==
    [1..n -> {Lit(t, 0 - 1), Lit(t, 0), Lit(t, 1)}]
    \cup (IF n = 3 THEN {<<Lit(t, 1), Lit(t, 2), Lit(t, 3)>>} ELSE {})
    \cup (IF n = 3 /\ t = "float" THEN {<<1, 0, 0>>} ELSE {})

InputsW(t, n) ==
    [1..n -> {Lit(t, 0), Lit(t, 1)}]
    \cup (IF n = 3 THEN {<<Lit(t, 4), Lit(t, 5), Lit(t, 6)>>} ELSE {})

\* scalar arguments
Scalars(t) == {Lit(t, 0 - 1), Lit(t, 0), Lit(t, 2), Lit(t, 3)}

\* initializer lists of length N - 1, N and N + 1
Lists(t, n) == {[i \in 1..k |-> Lit(t, i)] : k \in (n - 1)..(n + 1)}

\* largest component magnitude
Mag(vec) == CHOOSE m \in {Abs(vec[i]) : i \in 1..Len(vec)} :
                \A i \in 1..Len(vec) : Abs(vec[i]) <= m

\* signed overflow of an integral T is excluded: no sum, product or sum of N
\* products of the operands exceeds IntMax
AddSafe(a, b) == T = "int" => Mag(a) + Mag(b) <= IntMax
ScaleSafe(a, s) == T = "int" => Mag(a) * Abs(s) <= IntMax
ProdSafe(a, b) == T = "int" => N * Mag(a) * Mag(b) <= IntMax

Init ==
    /\ T \in Types
    /\ N \in Dims
    /\ ndebug \in BOOLEAN
    /\ v \in InputsV(T, N)
    /\ w \in InputsW(T, N)
    /\ r = <<>>
    /\ sc = 0
    /\ status = "ok"
    /\ call = Idle
    /\ steps = 0

Begin == status = "ok" /\ call.op = "idle"

Called(name, s, idx, list) ==
    call' = [op |-> name, s |-> s, idx |-> idx, list |-> list]

\* Vector<T, N> t;
DefaultConstruct ==
    /\ Begin
    /\ r' = Zero(T, N)
    /\ Called("Vector()", 0, 0, <<>>)
    /\ UNCHANGED <<T, N, ndebug, v, w, sc, status, steps>>

\* Vector<T, N> t = {list};
ListConstruct ==
    /\ Begin
    /\ \E list \in Lists(T, N) : \E o \in CtorList(ndebug, T, N, list) :
          /\ status' = o.st
          /\ r' = IF o.st = "ok" THEN o.obj ELSE r
          /\ Called("Vector{}", 0, 0, list)
    /\ UNCHANGED <<T, N, ndebug, v, w, sc, steps>>

\* v += w;
PlusAssign ==
    /\ Begin /\ steps < MaxSteps /\ AddSafe(v, w)
    /\ v' = OpPlusAssign(T, v, w)
    /\ Called("+=", 0, 0, <<>>)
    /\ steps' = steps + 1
    /\ UNCHANGED <<T, N, ndebug, w, r, sc, status>>

\* v -= w;
MinusAssign ==
    /\ Begin /\ steps < MaxSteps /\ AddSafe(v, w)
    /\ v' = OpMinusAssign(T, v, w)
    /\ Called("-=", 0, 0, <<>>)
    /\ steps' = steps + 1
    /\ UNCHANGED <<T, N, ndebug, w, r, sc, status>>

\* (v += w) -= w;   the compound operators return *this, so they chain
PlusMinusAssign ==
    /\ Begin /\ steps < MaxSteps /\ AddSafe(v, w) /\ AddSafe(OpPlusAssign(T, v, w), w)
    /\ v' = OpMinusAssign(T, OpPlusAssign(T, v, w), w)
    /\ Called("+=-=", 0, 0, <<>>)
    /\ steps' = steps + 1
    /\ UNCHANGED <<T, N, ndebug, w, r, sc, status>>

\* v *= s;
MulAssign ==
    /\ Begin /\ steps < MaxSteps
    /\ \E s \in Scalars(T) :
          /\ ScaleSafe(v, s)
          /\ v' = OpMulAssign(T, v, s)
          /\ Called("*=", s, 0, <<>>)
    /\ steps' = steps + 1
    /\ UNCHANGED <<T, N, ndebug, w, r, sc, status>>

\* v /= s;
DivAssign ==
    /\ Begin /\ steps < MaxSteps
    /\ \E s \in Scalars(T) : \E o \in OpDivAssign(ndebug, T, v, s) :
          /\ status' = o.st
          /\ v' = o.self
          /\ Called("/=", s, 0, <<>>)
    /\ steps' = steps + 1
    /\ UNCHANGED <<T, N, ndebug, w, r, sc>>

\* x = v[index];
IndexRead ==
    /\ Begin
    /\ \E index \in 0..N : \E o \in OpIndex(ndebug, N, index) :
          /\ status' = o.st
          /\ sc' \in (IF o.st = "ok" THEN ReadRef(T, v, o.slot) ELSE {sc})
          /\ Called("[]", 0, index, <<>>)
    /\ UNCHANGED <<T, N, ndebug, v, w, r, steps>>

\* v[index] = s;
IndexWrite ==
    /\ Begin /\ steps < MaxSteps
    /\ \E index \in 0..N : \E o \in OpIndex(ndebug, N, index) :
          /\ status' = o.st
          /\ v' = IF o.st = "ok" THEN WriteRef(v, o.slot, Lit(T, 2)) ELSE v
          /\ Called("[]=", Lit(T, 2), index, <<>>)
    /\ steps' = steps + 1
    /\ UNCHANGED <<T, N, ndebug, w, r, sc>>

\* x = v.x(); ... v.w();   compiled only when N >= k
AccessorRead ==
    /\ Begin
    /\ \E k \in 1..4 :
          /\ N >= k
          /\ sc' = v[Accessor(k)]
          /\ Called("x()", 0, k - 1, <<>>)
    /\ UNCHANGED <<T, N, ndebug, v, w, r, status, steps>>

\* v.x() = s; ... v.w() = s;
AccessorWrite ==
    /\ Begin /\ steps < MaxSteps
    /\ \E k \in 1..4 :
          /\ N >= k
          /\ v' = [v EXCEPT ![Accessor(k)] = Lit(T, 2)]
          /\ Called("x()=", Lit(T, 2), k - 1, <<>>)
    /\ steps' = steps + 1
    /\ UNCHANGED <<T, N, ndebug, w, r, sc, status>>

\* t = v + w;
Plus ==
    /\ Begin /\ AddSafe(v, w)
    /\ LET res == OperatorPlus(T, v, w) IN v' = res.arg /\ r' = res.ret
    /\ Called("+", 0, 0, <<>>)
    /\ UNCHANGED <<T, N, ndebug, w, sc, status, steps>>

\* t = v - w;
Minus ==
    /\ Begin /\ AddSafe(v, w)
    /\ LET res == OperatorMinus(T, v, w) IN v' = res.arg /\ r' = res.ret
    /\ Called("-", 0, 0, <<>>)
    /\ UNCHANGED <<T, N, ndebug, w, sc, status, steps>>

\* t = v + w - w;
PlusMinus ==
    /\ Begin /\ AddSafe(v, w) /\ AddSafe(OpPlusAssign(T, v, w), w)
    /\ LET sum == OperatorPlus(T, v, w)
           res == OperatorMinus(T, sum.ret, w)
       IN v' = sum.arg /\ r' = res.ret
    /\ Called("+-", 0, 0, <<>>)
    /\ UNCHANGED <<T, N, ndebug, w, sc, status, steps>>

\* t = v * s;
MulRight ==
    /\ Begin
    /\ \E s \in Scalars(T) :
          /\ ScaleSafe(v, s)
          /\ LET res == OperatorMulRight(T, v, s) IN v' = res.arg /\ r' = res.ret
          /\ Called("v*s", s, 0, <<>>)
    /\ UNCHANGED <<T, N, ndebug, w, sc, status, steps>>

\* t = s * v;
MulLeft ==
    /\ Begin
    /\ \E s \in Scalars(T) :
          /\ ScaleSafe(v, s)
          /\ LET res == OperatorMulLeft(T, s, v) IN v' = res.arg /\ r' = res.ret
          /\ Called("s*v", s, 0, <<>>)
    /\ UNCHANGED <<T, N, ndebug, w, sc, status, steps>>

\* t = v / s;
DivScalar ==
    /\ Begin
    /\ \E s \in Scalars(T) : \E o \in OperatorDiv(ndebug, T, v, s) :
          /\ status' = o.st
          /\ v' = o.arg
          /\ r' = IF o.st = "ok" THEN o.ret ELSE r
          /\ Called("/", s, 0, <<>>)
    /\ UNCHANGED <<T, N, ndebug, w, sc, steps>>

\* x = v.dot(w);
DotCall ==
    /\ Begin /\ ProdSafe(v, w)
    /\ sc' = Dot(T, v, w)
    /\ Called("dot", 0, 0, <<>>)
    /\ UNCHANGED <<T, N, ndebug, v, w, r, status, steps>>

\* x = dot(v, w);
DotFreeCall ==
    /\ Begin /\ ProdSafe(v, w)
    /\ sc' = DotFree(T, v, w)
    /\ Called("dot()", 0, 0, <<>>)
    /\ UNCHANGED <<T, N, ndebug, v, w, r, status, steps>>

\* t = v.cross(w);   compiled only when N == 3
CrossCall ==
    /\ Begin /\ N = 3 /\ ProdSafe(v, w)
    /\ r' = Cross(T, v, w)
    /\ Called("cross", 0, 0, <<>>)
    /\ UNCHANGED <<T, N, ndebug, v, w, sc, status, steps>>

\* t = cross(v, w);
CrossFreeCall ==
    /\ Begin /\ N = 3 /\ ProdSafe(v, w)
    /\ r' = CrossFree(T, v, w)
    /\ Called("cross()", 0, 0, <<>>)
    /\ UNCHANGED <<T, N, ndebug, v, w, sc, status, steps>>

\* x = v.normSq();
NormSqCall ==
    /\ Begin /\ ProdSafe(v, v)
    /\ sc' = NormSq(T, v)
    /\ Called("normSq", 0, 0, <<>>)
    /\ UNCHANGED <<T, N, ndebug, v, w, r, status, steps>>

\* x = v.norm();
NormCall ==
    /\ Begin /\ ProdSafe(v, v)
    /\ sc' = Norm(T, v)
    /\ Called("norm", 0, 0, <<>>)
    /\ UNCHANGED <<T, N, ndebug, v, w, r, status, steps>>

\* t = v.normalized();
NormalizedCall ==
    /\ Begin /\ ProdSafe(v, v)
    /\ \E o \in Normalized(ndebug, T, v) :
          /\ status' = o.st
          /\ v' = o.arg
          /\ r' = IF o.st = "ok" THEN o.ret ELSE r
    /\ Called("normalized", 0, 0, <<>>)
    /\ UNCHANGED <<T, N, ndebug, w, sc, steps>>

\* v.normalize();
NormalizeCall ==
    /\ Begin /\ steps < MaxSteps /\ ProdSafe(v, v)
    /\ \E o \in Normalize(ndebug, T, v) :
          /\ status' = o.st
          /\ v' = o.self
    /\ Called("normalize", 0, 0, <<>>)
    /\ steps' = steps + 1
    /\ UNCHANGED <<T, N, ndebug, w, r, sc>>

\* the statement ends: the returned temporary is gone, the next call may start
EndStatement ==
    /\ status = "ok" /\ call.op # "idle"
    /\ call' = Idle
    /\ r' = <<>>
    /\ sc' = 0
    /\ UNCHANGED <<T, N, ndebug, v, w, status, steps>>

Next ==
    \/ DefaultConstruct \/ ListConstruct
    \/ PlusAssign \/ MinusAssign \/ PlusMinusAssign \/ MulAssign \/ DivAssign
    \/ IndexRead \/ IndexWrite \/ AccessorRead \/ AccessorWrite
    \/ Plus \/ Minus \/ PlusMinus \/ MulRight \/ MulLeft \/ DivScalar
    \/ DotCall \/ DotFreeCall \/ CrossCall \/ CrossFreeCall
    \/ NormSqCall \/ NormCall \/ NormalizedCall \/ NormalizeCall
    \/ EndStatement

Spec == Init /\ [][Next]_vars

\* ----------------------------------------------------------------- claims
UnitX(t) == <<Lit(t, 1), Lit(t, 0), Lit(t, 0)>>
UnitY(t) == <<Lit(t, 0), Lit(t, 1), Lit(t, 0)>>
UnitZ(t) == <<Lit(t, 0), Lit(t, 0), Lit(t, 1)>>
V123(t) == <<Lit(t, 1), Lit(t, 2), Lit(t, 3)>>
V456(t) == <<Lit(t, 4), Lit(t, 5), Lit(t, 6)>>

\* C1: v + w returns a vector whose component i is v[i] + w[i] for every i,
\* and (1,2,3) + (4,5,6) = (5,7,9)
C1_PlusElementwise ==
    /\ call.op = "+" =>
          /\ Len(r) = N
          /\ \A i \in 1..N : r[i] = Add(T, v[i], w[i])
    /\ (call.op = "+" /\ v = V123(T) /\ w = V456(T)) =>
          r = <<Lit(T, 5), Lit(T, 7), Lit(T, 9)>>

C1_Witness ==
    /\ call.op = "+" /\ T = "float" /\ v = V123(T) /\ w = V456(T)
    /\ r = <<Lit(T, 5), Lit(T, 7), Lit(T, 9)>>

\* C2: cross(a, b), member and free function alike, returns
\* (a.y*b.z - a.z*b.y, a.z*b.x - a.x*b.z, a.x*b.y - a.y*b.x), and
\* cross((1,0,0), (0,1,0)) = (0,0,1)
C2_CrossFormula ==
    /\ call.op \in {"cross", "cross()"} =>
          /\ r[1] = Sub(T, Mul(T, v[2], w[3]), Mul(T, v[3], w[2]))
          /\ r[2] = Sub(T, Mul(T, v[3], w[1]), Mul(T, v[1], w[3]))
          /\ r[3] = Sub(T, Mul(T, v[1], w[2]), Mul(T, v[2], w[1]))
          /\ Len(r) = 3
    /\ (call.op \in {"cross", "cross()"} /\ v = UnitX(T) /\ w = UnitY(T)) =>
          r = UnitZ(T)

C2_Witness ==
    call.op = "cross()" /\ T = "float" /\ v = UnitX(T) /\ w = UnitY(T) /\ r = UnitZ(T)

\* C3: cross(a, b) is the component-wise negation of cross(b, a), and
\* cross((0,1,0), (1,0,0)) = (0,0,-1)
C3_CrossAnticommutative ==
    /\ call.op \in {"cross", "cross()"} =>
          r = [i \in 1..3 |-> Neg(T, CrossFree(T, w, v)[i])]
    /\ (call.op \in {"cross", "cross()"} /\ v = UnitY(T) /\ w = UnitX(T)) =>
          r = <<Lit(T, 0), Lit(T, 0), Lit(T, 0 - 1)>>

C3_Witness ==
    /\ call.op = "cross()" /\ T = "float" /\ v = UnitY(T) /\ w = UnitX(T)
    /\ r = <<Lit(T, 0), Lit(T, 0), Lit(T, 0 - 1)>>

\* C4: for every scalar s # 0, v / s and v /= s yield the vector whose
\* component i is v[i] / s
C4_DivElementwise ==
    [][ /\ (call'.op = "/" /\ call'.s # Lit(T, 0)) =>
              r' = [i \in 1..N |-> Div(T, v[i], call'.s)]
        /\ (call'.op = "/=" /\ call'.s # Lit(T, 0)) =>
              v' = [i \in 1..N |-> Div(T, v[i], call'.s)] ]_vars

\* norm() < 1e-8 as a comparison of numbers: an integral norm is below 1e-8
\* exactly when it is not positive
NormBelowTolerance(t, vec) ==
    IF t = "int" THEN Norm(t, vec) <= 0 ELSE Less(t, Norm(t, vec), FloatEps)

\* C5: normalized() of a vector whose norm() is below 1e-8 returns the zero
\* vector and does not abort, for every element type
C5_NormalizedDegenerate ==
    (call.op = "normalized" /\ NormBelowTolerance(T, v)) =>
        (status = "ok" /\ r = Zero(T, N))

\* a call whose precondition is violated
Violation(c) ==
    \/ c.op = "Vector{}" /\ Len(c.list) # N
    \/ c.op \in {"[]", "[]="} /\ c.idx >= N
    \/ c.op \in {"/", "/="} /\ c.s = Lit(T, 0)

\* C6 as stated: every precondition violation aborts before any component is
\* written or any result is returned
C6_AlwaysAborts ==
    [][ Violation(call') =>
          (status' = "aborted" /\ v' = v /\ r' = r /\ sc' = sc) ]_vars

\* C6 amended: in a build whose asserts are active, every precondition
\* violation aborts before any component is written or any result is returned
C6_AbortsWhenChecked ==
    [][ (~ndebug /\ Violation(call')) =>
          (status' = "aborted" /\ v' = v /\ r' = r /\ sc' = sc) ]_vars

C6_Witness ==
    ~ndebug /\ status = "aborted" /\ call.op = "/=" /\ call.s = Lit(T, 0) /\ v = V123(T)

NonMutating == {"+", "-", "+-", "v*s", "s*v", "/", "normalized"}
Mutating == {"+=", "-=", "+=-=", "*=", "/=", "[]=", "x()=", "normalize"}

\* C7: v + w, v - w, v * s, s * v, v / s and normalized() leave every operand
\* unchanged; only +=, -=, *=, /=, indexed and named-accessor writes and
\* normalize() change a vector
C7_OperandsUnchanged ==
    [][ /\ call'.op \in NonMutating => (v' = v /\ w' = w)
        /\ (v' # v \/ w' # w) => call'.op \in Mutating ]_vars

C7_Witness ==
    call.op = "+" /\ status = "ok" /\ v = V123(T) /\ w = V456(T) /\ r # v

\* C8: v * s and s * v are equal component-wise, each component v[i] * s
C8_ScalarMulCommutes ==
    /\ call.op = "v*s" =>
          /\ r = OperatorMulLeft(T, call.s, v).ret
          /\ \A i \in 1..N : r[i] = Mul(T, v[i], call.s)
    /\ call.op = "s*v" =>
          /\ r = OperatorMulRight(T, v, call.s).ret
          /\ \A i \in 1..N : r[i] = Mul(T, v[i], call.s)

C8_Witness ==
    /\ call.op = "s*v" /\ call.s = Lit(T, 2) /\ v = V123(T)
    /\ r = <<Lit(T, 2), Lit(T, 4), Lit(T, 6)>>

\* the sum over i = 1..n of a[i] * b[i]
RECURSIVE SumProducts(_, _, _, _)
SumProducts(t, a, b, n) ==
    IF n = 0 THEN Lit(t, 0)
    ELSE Add(t, SumProducts(t, a, b, n - 1), Mul(t, a[n], b[n]))

\* C9: dot(a, b) is the sum of a[i]*b[i], equals dot(b, a), the free function
\* returns what the member returns, and dot((1,0,0), (0,1,0)) = 0
C9_DotSymmetric ==
    /\ call.op \in {"dot", "dot()"} =>
          /\ sc = SumProducts(T, v, w, N)
          /\ sc = DotFree(T, w, v)
          /\ sc = Dot(T, v, w)
    /\ (call.op \in {"dot", "dot()"} /\ N = 3 /\ v = UnitX(T) /\ w = UnitY(T)) =>
          sc = Lit(T, 0)

C9_Witness ==
    call.op = "dot()" /\ T = "float" /\ v = V123(T) /\ w = V456(T) /\ sc = Lit(T, 32)

\* every sum v[i] + w[i] is computed exactly in T: no rounding, no overflow
ExactSums(a, b) ==
    \A i \in 1..Len(a) :
        T = "float" =>
            /\ IsFinite(a[i]) /\ IsFinite(b[i])
            /\ FAdd(a[i], b[i]) = a[i] + b[i]

\* C10 as stated: (v + w) - w equals v component-wise, and after v += w
\* followed by v -= w the vector v holds its original components
C10_RoundTrip ==
    [][ /\ call'.op = "+-" => r' = v
        /\ call'.op = "+=-=" => v' = v ]_vars

\* C10 amended: the same, for v and w whose sums v[i] + w[i] are computed
\* exactly in T
C10_RoundTripExact ==
    [][ ExactSums(v, w) =>
          /\ call'.op = "+-" => r' = v
          /\ call'.op = "+=-=" => v' = v ]_vars

C10_Witness ==
    /\ call.op = "+-" /\ T = "float" /\ v = V123(T) /\ w = V456(T)
    /\ ExactSums(v, w) /\ r = v

====
